---- MODULE Spec2Model ----
(***************************************************************************)
(* Model of src/src/lib.rs: the Stylus startup plugin.                     *)
(*                                                                         *)
(* init_stylus runs init_stylus_client on a joined worker thread and       *)
(* publishes a StylusClient resource; the host then calls                  *)
(* get_sword_counts, increment_sword and increment_sword_async on the      *)
(* published client.  The chain is the environment: a transaction that     *)
(* `.send()` submitted sits in the node's pool until the chain mines it.   *)
(*                                                                         *)
(* Every fallible call the source shows (`?`, `.unwrap()`, a byte slice,   *)
(* `as_u64`) fails nondeterministically or by its own rule.                *)
(* Creating a thread (std::thread::spawn) is taken to succeed.             *)
(* Strings are sequences of bytes; a byte is one of                        *)
(*   "0" "h"  ASCII hex digits        "x" "g"  other ASCII                 *)
(*   "L"      lead byte of a two-byte UTF-8 character                      *)
(*   "T"      its continuation byte                                        *)
(* TLC's integers are 32 bits wide, so a u64 word is scaled to WordMod     *)
(* values and a U256 (four words) to WordMod^4 values.                     *)
(***************************************************************************)
EXTENDS Integers, Sequences, FiniteSets

VARIABLES
    env_key,      \* the PRIVATE_KEY environment variable: [set, val]
    pc,           \* host: "startup" | "running" | "panicked"
    resource,     \* host resource table, StylusClient slot: <<>> or <<client>>
    publishes,    \* number of insert_resource calls made
    env,          \* outcomes the environment gave the initialization steps
    initResult,   \* what the joined worker thread handed back
    keyLog,       \* the "Using private key" log lines printed
    counts,       \* on-chain counters (mined state), a triple of U256
    initial,      \* the counters at startup
    mempool,      \* submitted, not yet mined incrementSword transactions
    workers,      \* detached threads spawned and not yet run, per colour
    runtimes,     \* tokio runtimes created by the three operations
    requests,     \* remote requests issued (chain-id query, calls, sends)
    threads,      \* threads spawned by increment_sword_async
    calls,        \* operations the host has called
    lastCall,     \* name of the last operation called
    lastResult,   \* what it returned to the caller
    prevResult,   \* what the operation before it returned
    acked,        \* per colour, blocking increments that returned Ok
    issued        \* per colour, fire-and-forget increments called when Ready

vars == <<env_key, pc, resource, publishes, env, initResult, keyLog, counts,
          initial, mempool, workers, runtimes, requests, threads, calls,
          lastCall, lastResult, prevResult, acked, issued>>

(***************************************************************************)
(* Bounds                                                                  *)
(***************************************************************************)
MaxKeyLen == 22     \* longest generated PRIVATE_KEY value, in bytes
MaxColor == 3       \* colour arguments range over 0..MaxColor
MaxCalls == 3       \* operations the host calls after startup
WordMod == 16       \* values of one scaled u64 word

Colors == 0..MaxColor
U256Mod == WordMod * WordMod * WordMod * WordMod

(***************************************************************************)
(* Strings                                                                 *)
(***************************************************************************)
Rep(c, n) == [i \in 1..n |-> c]

\* str::is_char_boundary, for a byte offset idx
IsCharBoundary(s, idx) ==
    \/ idx = 0
    \/ idx = Len(s)
    \/ idx < Len(s) /\ s[idx + 1] # "T"

\* the literal of line 180: "0x" and 64 hex digits
DEFAULT_KEY == <<"0", "x">> \o Rep("h", 64)

\* the number of bytes the log line keeps at each end
KEEP == 10

\* the length test taken as "at least 10"
Redact_ge(key) ==
    IF Len(key) >= KEEP
    THEN IF IsCharBoundary(key, KEEP) /\ IsCharBoundary(key, Len(key) - KEEP)
         THEN [panic |-> FALSE,
               line |-> SubSeq(key, 1, KEEP) \o <<".", ".", ".">>
                        \o SubSeq(key, Len(key) - KEEP + 1, Len(key))]
         ELSE [panic |-> TRUE, line |-> <<>>]
    ELSE [panic |-> FALSE, line |-> key]

\* `if private_key.len() > 10 { format!("{}...{}", &k[..10], &k[len-10..]) }
\*  else { private_key.clone() }`; a slice off a char boundary panics
Redact(key) ==
    IF Len(key) > KEEP
    THEN IF IsCharBoundary(key, KEEP) /\ IsCharBoundary(key, Len(key) - KEEP)
         THEN [panic |-> FALSE,
               line |-> SubSeq(key, 1, KEEP) \o <<".", ".", ".">>
                        \o SubSeq(key, Len(key) - KEEP + 1, Len(key))]
         ELSE [panic |-> TRUE, line |-> <<>>]
    ELSE [panic |-> FALSE, line |-> key]

IsHex(b) == b \in {"0", "h"}

\* `src.strip_prefix("0x")` of LocalWallet::from_str
StripPrefix(key) ==
    IF Len(key) >= 2 /\ key[1] = "0" /\ key[2] = "x"
    THEN SubSeq(key, 3, Len(key))
    ELSE key

\* LocalWallet::from_str: 64 hex digits (32 bytes) that are a nonzero scalar
KeyValid(key) ==
    LET h == StripPrefix(key)
    IN  /\ Len(h) = 64
        /\ \A i \in 1..Len(h) : IsHex(h[i])
        /\ \E i \in 1..Len(h) : h[i] # "0"

\* std::env::var("PRIVATE_KEY").unwrap_or_else(|_| default)
PrivateKey(ev) == IF ev.set THEN ev.val ELSE DEFAULT_KEY

(***************************************************************************)
(* Wide integers                                                           *)
(***************************************************************************)
\* U256::from(value: u8)
u8_to_u256(value) == value

FitsWord(v) == v < WordMod

\* U256::low_u64: the low word, unchecked
low_u64(v) == v % WordMod

\* the conversion without its check
as_u64_unchecked(v) == [panic |-> FALSE, val |-> low_u64(v)]

\* U256::as_u64: "Panics if the number is larger than u64::max_value()";
\* [panic |-> TRUE] stands for that panic
as_u64(v) ==
    IF FitsWord(v) THEN [panic |-> FALSE, val |-> v]
    ELSE [panic |-> TRUE, val |-> 0]

(***************************************************************************)
(* The client                                                              *)
(***************************************************************************)
EmptyClient ==
    [contract_client |-> "None", contract_address |-> "None", contract |-> "None"]

ReadyClient ==
    [contract_client |-> "Some", contract_address |-> "Some", contract |-> "Some"]

Ok(v) == [kind |-> "ok", err |-> "", client |-> v]
Err(e) == [kind |-> "err", err |-> e, client |-> EmptyClient]
Panicked(e) == [kind |-> "panic", err |-> e, client |-> EmptyClient]

\* chain ids a node may answer the chain-id query with: one that fits a u64
\* and one that does not
ChainIds == {1, WordMod}

EnvOutcomes ==
    [runtime : BOOLEAN, read : BOOLEAN, parse : BOOLEAN, url : BOOLEAN,
     chainid : {0} \cup ChainIds, address : BOOLEAN]

NoEnv ==
    [runtime |-> TRUE, read |-> TRUE, parse |-> TRUE, url |-> TRUE,
     chainid |-> 0, address |-> TRUE]

\* e.chainid = 0: the chain-id query fails
ChainIdFails(e) == e.chainid = 0

(***************************************************************************)
(* Initialization                                                          *)
(***************************************************************************)
\* What one run of init_stylus_client does with credential `key` when the
\* environment answers its steps with `e`: the Result it returns (or the
\* panic that unwinds it), the key lines it printed and the remote requests
\* it issued.  The steps are tried in the order of the source.
InitRun(res, lines, reqs) == [result |-> res, lines |-> lines, reqs |-> reqs]

\* the order of the numbered steps: the chain-id query before the key parse
init_stylus_client_query_first(key, e) ==
    IF ~e.read THEN InitRun(Err("config_read"), <<>>, 0)
    ELSE IF ~e.parse THEN InitRun(Err("config_parse"), <<>>, 0)
    ELSE IF Redact(key).panic THEN InitRun(Panicked("slice"), <<>>, 0)
    ELSE IF ~e.url THEN InitRun(Err("url"), <<Redact(key).line>>, 0)
    ELSE IF ChainIdFails(e) THEN InitRun(Err("network"), <<Redact(key).line>>, 1)
    ELSE IF as_u64(e.chainid).panic
         THEN InitRun(Panicked("as_u64"), <<Redact(key).line>>, 1)
    ELSE IF ~KeyValid(key) THEN InitRun(Err("credential"), <<Redact(key).line>>, 1)
    ELSE IF ~e.address THEN InitRun(Err("address"), <<Redact(key).line>>, 1)
    ELSE InitRun(Ok(ReadyClient), <<Redact(key).line>>, 1)

\* the fields assigned as they become available, and the client returned
\* as it stands when the address does not parse
init_stylus_client_partial(key, e) ==
    IF ~e.read THEN InitRun(Err("config_read"), <<>>, 0)
    ELSE IF ~e.parse THEN InitRun(Err("config_parse"), <<>>, 0)
    ELSE IF Redact(key).panic THEN InitRun(Panicked("slice"), <<>>, 0)
    ELSE IF ~e.url THEN InitRun(Err("url"), <<Redact(key).line>>, 0)
    ELSE IF ~KeyValid(key) THEN InitRun(Err("credential"), <<Redact(key).line>>, 0)
    ELSE IF ChainIdFails(e) THEN InitRun(Err("network"), <<Redact(key).line>>, 1)
    ELSE IF as_u64(e.chainid).panic
         THEN InitRun(Panicked("as_u64"), <<Redact(key).line>>, 1)
    ELSE IF ~e.address
         THEN InitRun(Ok([EmptyClient EXCEPT !.contract_client = "Some"]),
                      <<Redact(key).line>>, 1)
    ELSE InitRun(Ok(ReadyClient), <<Redact(key).line>>, 1)

init_stylus_client(key, e) ==
    \* fs::read_to_string("Stylus.toml")
    IF ~e.read THEN InitRun(Err("config_read"), <<>>, 0)
    \* toml::from_str
    ELSE IF ~e.parse THEN InitRun(Err("config_parse"), <<>>, 0)
    \* println!("Using private key: {}", ...): the slices may panic
    ELSE IF Redact(key).panic THEN InitRun(Panicked("slice"), <<>>, 0)
    \* Provider::<Http>::try_from(&config.contract.rpc_url)?
    ELSE IF ~e.url THEN InitRun(Err("url"), <<Redact(key).line>>, 0)
    \* LocalWallet::from_str(&private_key)?
    ELSE IF ~KeyValid(key) THEN InitRun(Err("credential"), <<Redact(key).line>>, 0)
    \* provider.get_chainid().await?
    ELSE IF ChainIdFails(e) THEN InitRun(Err("network"), <<Redact(key).line>>, 1)
    \* .as_u64()
    ELSE IF as_u64(e.chainid).panic
         THEN InitRun(Panicked("as_u64"), <<Redact(key).line>>, 1)
    \* config.contract.address.parse()?
    ELSE IF ~e.address THEN InitRun(Err("address"), <<Redact(key).line>>, 1)
    ELSE InitRun(Ok(ReadyClient), <<Redact(key).line>>, 1)

\* The closure the worker thread of init_stylus runs:
\* Runtime::new().unwrap().block_on(init_stylus_client())
InitThread(key, e) ==
    IF ~e.runtime THEN InitRun(Panicked("runtime"), <<>>, 0)
    ELSE init_stylus_client(key, e)

\* the client init_stylus inserts for what the thread returned
Published(res) == IF res.kind = "ok" THEN res.client ELSE EmptyClient

\* init_stylus: spawn, join, unwrap, match, insert_resource.  A panic of the
\* worker makes join() return Err and the unwrap panic in the startup system.
init_stylus ==
    /\ pc = "startup"
    /\ \E e \in EnvOutcomes :
         LET run == InitThread(PrivateKey(env_key), e)
         IN  /\ env' = e
             /\ initResult' = [kind |-> run.result.kind, err |-> run.result.err]
             /\ keyLog' = keyLog \o run.lines
             /\ requests' = requests + run.reqs
             /\ IF run.result.kind = "panic"
                THEN /\ pc' = "panicked"
                     /\ UNCHANGED <<resource, publishes>>
                ELSE /\ pc' = "running"
                     /\ resource' = <<Published(run.result)>>
                     /\ publishes' = publishes + 1
    /\ UNCHANGED <<env_key, counts, initial, mempool, workers, runtimes,
                   threads, calls, lastCall, lastResult, prevResult, acked,
                   issued>>

(***************************************************************************)
(* The remote contract and the chain                                       *)
(***************************************************************************)
\* getSwordCounts(): the three counters
getSwordCounts(chain) == chain

\* incrementSword(color): colours 0, 1, 2 select a counter; another colour
\* reverts and leaves the counters alone
incrementSword(chain, color) ==
    IF color \in 0..2
    THEN [chain EXCEPT ![color + 1] = (@ + 1) % U256Mod]
    ELSE chain

\* the chain mines one submitted incrementSword transaction
Mine(color) ==
    /\ pc # "startup"
    /\ mempool[color] > 0
    /\ mempool' = [mempool EXCEPT ![color] = @ - 1]
    /\ counts' = incrementSword(counts, color)
    /\ UNCHANGED <<env_key, pc, resource, publishes, env, initResult, keyLog,
                   initial, workers, runtimes, requests, threads, calls,
                   lastCall, lastResult, prevResult, acked, issued>>

(***************************************************************************)
(* Operations of the client                                                *)
(***************************************************************************)
NoCounts == <<0, 0, 0>>

Res(op, kind, err, val, raw) ==
    [op |-> op, kind |-> kind, err |-> err, val |-> val, raw |-> raw,
     acked |-> acked]

NoResult ==
    [op |-> "", kind |-> "none", err |-> "", val |-> NoCounts, raw |-> NoCounts,
     acked |-> [c \in Colors |-> 0]]

\* what an operation did: the result, runtimes created, requests issued,
\* whether the caller panicked, whether a transaction was submitted
Did(res, rt, rq, panic, sent) ==
    [res |-> res, rt |-> rt, rq |-> rq, panic |-> panic, sent |-> sent]

\* the tuple of line 86-90 from the three U256 the call returned
Convert(raw) ==
    IF \E i \in 1..3 : as_u64(raw[i]).panic
    THEN Did(Res("get_sword_counts", "panic", "as_u64", NoCounts, raw), 1, 1, TRUE, FALSE)
    ELSE Did(Res("get_sword_counts", "ok", "",
                 <<as_u64(raw[1]).val, as_u64(raw[2]).val, as_u64(raw[3]).val>>, raw),
             1, 1, FALSE, FALSE)

\* the runtime created before the contract is looked at
GetSwordCounts_runtime_first(client, rtOk, callOk) ==
    IF ~rtOk
    THEN Did(Res("get_sword_counts", "err", "runtime", NoCounts, NoCounts),
             0, 0, FALSE, FALSE)
    ELSE IF client.contract = "None"
    THEN Did(Res("get_sword_counts", "err", "Contract not initialized", NoCounts, NoCounts),
             1, 0, FALSE, FALSE)
    ELSE IF ~callOk
    THEN Did(Res("get_sword_counts", "err", "call", NoCounts, NoCounts),
             1, 1, FALSE, FALSE)
    ELSE Convert(getSwordCounts(counts))

\* get_sword_counts(&self): rtOk, callOk are the outcomes of Runtime::new()
\* and of the remote call
GetSwordCounts(client, rtOk, callOk) ==
    IF client.contract = "None"
    THEN Did(Res("get_sword_counts", "err", "Contract not initialized", NoCounts, NoCounts),
             0, 0, FALSE, FALSE)
    ELSE IF ~rtOk
    THEN Did(Res("get_sword_counts", "err", "runtime", NoCounts, NoCounts),
             0, 0, FALSE, FALSE)
    ELSE IF ~callOk
    THEN Did(Res("get_sword_counts", "err", "call", NoCounts, NoCounts),
             1, 1, FALSE, FALSE)
    ELSE Convert(getSwordCounts(counts))

\* increment_sword(&self, color): sendOk is the outcome of `.send()`, which
\* resolves when the node has accepted the transaction
IncrementSword(client, color, rtOk, sendOk) ==
    IF client.contract = "None"
    THEN Did(Res("increment_sword", "err", "Contract not initialized", NoCounts, NoCounts),
             0, 0, FALSE, FALSE)
    ELSE IF ~rtOk
    THEN Did(Res("increment_sword", "err", "runtime", NoCounts, NoCounts),
             0, 0, FALSE, FALSE)
    ELSE IF ~sendOk
    THEN Did(Res("increment_sword", "err", "send", NoCounts, NoCounts),
             1, 1, FALSE, FALSE)
    ELSE Did(Res("increment_sword", "ok", "", NoCounts, NoCounts),
             1, 1, FALSE, TRUE)

\* bookkeeping common to the three operations: the host makes one more call
Called(op, res) ==
    /\ calls' = calls + 1
    /\ lastCall' = op
    /\ prevResult' = lastResult
    /\ lastResult' = res

\* a failed send drops the client: the resource is replaced by an empty one
increment_sword_reset(color) ==
    /\ pc = "running"
    /\ calls < MaxCalls
    /\ \E rtOk \in BOOLEAN, sendOk \in BOOLEAN :
         LET did == IncrementSword(resource[1], u8_to_u256(color), rtOk, sendOk)
         IN  /\ Called("increment_sword", did.res)
             /\ runtimes' = runtimes + did.rt
             /\ requests' = requests + did.rq
             /\ mempool' = IF did.sent THEN [mempool EXCEPT ![color] = @ + 1]
                           ELSE mempool
             /\ acked' = IF did.res.kind = "ok" THEN [acked EXCEPT ![color] = @ + 1]
                         ELSE acked
             /\ resource' = IF did.res.err = "send" THEN <<EmptyClient>> ELSE resource
    /\ UNCHANGED <<env_key, pc, publishes, env, initResult, keyLog,
                   counts, initial, workers, threads, issued>>

\* the thread spawned whether or not the contract is there
increment_sword_async_always(color) ==
    /\ pc = "running"
    /\ calls < MaxCalls
    /\ Called("increment_sword_async",
              Res("increment_sword_async", "unit", "", NoCounts, NoCounts))
    /\ workers' = [workers EXCEPT ![u8_to_u256(color)] = @ + 1]
    /\ threads' = threads + 1
    /\ issued' = [issued EXCEPT ![color] = @ + 1]
    /\ UNCHANGED <<env_key, pc, resource, publishes, env, initResult, keyLog,
                   counts, initial, mempool, runtimes, requests, acked>>

\* the submission made on the calling thread, which waits for it
increment_sword_async_inline(color) ==
    /\ pc = "running"
    /\ calls < MaxCalls
    /\ Called("increment_sword_async",
              Res("increment_sword_async", "unit", "", NoCounts, NoCounts))
    /\ IF resource[1].contract = "None"
       THEN UNCHANGED <<mempool, runtimes, requests, issued>>
       ELSE /\ mempool' = [mempool EXCEPT ![u8_to_u256(color)] = @ + 1]
            /\ runtimes' = runtimes + 1
            /\ requests' = requests + 1
            /\ issued' = [issued EXCEPT ![color] = @ + 1]
    /\ UNCHANGED <<env_key, pc, resource, publishes, env, initResult, keyLog,
                   counts, initial, workers, threads, acked>>

get_sword_counts ==
    /\ pc = "running"
    /\ calls < MaxCalls
    /\ \E rtOk \in BOOLEAN, callOk \in BOOLEAN :
         LET did == GetSwordCounts(resource[1], rtOk, callOk)
         IN  /\ Called("get_sword_counts", did.res)
             /\ runtimes' = runtimes + did.rt
             /\ requests' = requests + did.rq
             /\ pc' = IF did.panic THEN "panicked" ELSE pc
    /\ UNCHANGED <<env_key, resource, publishes, env, initResult, keyLog,
                   counts, initial, mempool, workers, threads, acked, issued>>

increment_sword(color) ==
    /\ pc = "running"
    /\ calls < MaxCalls
    /\ \E rtOk \in BOOLEAN, sendOk \in BOOLEAN :
         LET did == IncrementSword(resource[1], u8_to_u256(color), rtOk, sendOk)
         IN  /\ Called("increment_sword", did.res)
             /\ runtimes' = runtimes + did.rt
             /\ requests' = requests + did.rq
             /\ mempool' = IF did.sent THEN [mempool EXCEPT ![color] = @ + 1]
                           ELSE mempool
             /\ acked' = IF did.res.kind = "ok" THEN [acked EXCEPT ![color] = @ + 1]
                         ELSE acked
    /\ UNCHANGED <<env_key, pc, resource, publishes, env, initResult, keyLog,
                   counts, initial, workers, threads, issued>>

\* increment_sword_async(&self, color): spawn a detached thread when the
\* contract is there, and return
increment_sword_async(color) ==
    /\ pc = "running"
    /\ calls < MaxCalls
    /\ Called("increment_sword_async",
              Res("increment_sword_async", "unit", "", NoCounts, NoCounts))
    /\ IF resource[1].contract = "None"
       THEN UNCHANGED <<workers, threads, issued>>
       ELSE /\ workers' = [workers EXCEPT ![u8_to_u256(color)] = @ + 1]
            /\ threads' = threads + 1
            /\ issued' = [issued EXCEPT ![color] = @ + 1]
    /\ UNCHANGED <<env_key, pc, resource, publishes, env, initResult, keyLog,
                   counts, initial, mempool, runtimes, requests, acked>>

\* the body of the detached thread: Runtime::new().unwrap(), then
\* `let _ = contract.increment_sword(color_u256).send().await`
worker_run(color) ==
    /\ workers[color] > 0
    /\ workers' = [workers EXCEPT ![color] = @ - 1]
    /\ \E rtOk \in BOOLEAN, sendOk \in BOOLEAN :
         /\ runtimes' = IF rtOk THEN runtimes + 1 ELSE runtimes
         /\ requests' = IF rtOk THEN requests + 1 ELSE requests
         /\ mempool' = IF rtOk /\ sendOk THEN [mempool EXCEPT ![color] = @ + 1]
                       ELSE mempool
    /\ UNCHANGED <<env_key, pc, resource, publishes, env, initResult, keyLog,
                   counts, initial, threads, calls, lastCall, lastResult,
                   prevResult, acked, issued>>

(***************************************************************************)
(* Specifications                                                          *)
(***************************************************************************)
\* PRIVATE_KEY values: unset, or up to MaxKeyLen hex digits with at most one
\* byte that is no hex digit or one two-byte character
GeneratedKeys ==
    UNION {
        {Rep("h", n)}
        \cup {[Rep("h", n) EXCEPT ![k] = "g"] : k \in 1..n}
        \cup {[[Rep("h", n) EXCEPT ![k] = "L"] EXCEPT ![k + 1] = "T"] : k \in 1..(n - 1)}
        : n \in 0..MaxKeyLen}

EnvKeys ==
    {[set |-> FALSE, val |-> <<>>]} \cup {[set |-> TRUE, val |-> k] : k \in GeneratedKeys}

\* the few the operations are explored with: unset, a short one, one that
\* the redaction slices inside a character
FewKeys ==
    {[set |-> FALSE, val |-> <<>>],
     [set |-> TRUE, val |-> Rep("h", 3)],
     [set |-> TRUE, val |-> [[Rep("h", KEEP + 2) EXCEPT ![KEEP] = "L"] EXCEPT ![KEEP + 1] = "T"]]}

InitialCounts ==
    {<<a, b, c>> : a \in {0}, b \in {0, WordMod - 2}, c \in {0, WordMod + 1}}

InitWith(keys) ==
    /\ env_key \in keys
    /\ pc = "startup"
    /\ resource = <<>>
    /\ publishes = 0
    /\ env = NoEnv
    /\ initResult = [kind |-> "none", err |-> ""]
    /\ keyLog = <<>>
    /\ counts \in InitialCounts
    /\ initial = counts
    /\ mempool = [c \in Colors |-> 0]
    /\ workers = [c \in Colors |-> 0]
    /\ runtimes = 0
    /\ requests = 0
    /\ threads = 0
    /\ calls = 0
    /\ lastCall = ""
    /\ lastResult = NoResult
    /\ prevResult = NoResult
    /\ acked = [c \in Colors |-> 0]
    /\ issued = [c \in Colors |-> 0]

Init == InitWith(FewKeys)

Next ==
    \/ init_stylus
    \/ get_sword_counts
    \/ \E color \in Colors : increment_sword(color)
    \/ \E color \in Colors : increment_sword_async(color)
    \/ \E color \in Colors : worker_run(color)
    \/ \E color \in Colors : Mine(color)

Spec == Init /\ [][Next]_vars

\* startup alone, over every generated PRIVATE_KEY value
InitStartup == InitWith(EnvKeys)

NextStartup == init_stylus

SpecStartup == InitStartup /\ [][NextStartup]_vars

(***************************************************************************)
(* Properties                                                              *)
(***************************************************************************)
key == PrivateKey(env_key)

AllPresent(c) ==
    c.contract_client = "Some" /\ c.contract_address = "Some" /\ c.contract = "Some"

AllAbsent(c) ==
    c.contract_client = "None" /\ c.contract_address = "None" /\ c.contract = "None"

InitDone == initResult.kind # "none"

Uninitialized == pc = "running" /\ resource[1].contract = "None"

Ready == pc = "running" /\ resource[1].contract = "Some"

\* C1: every client init_stylus publishes has its three fields all present
\* or all absent, whatever the outcome of each initialization step.
C1_AllOrNothing ==
    \A i \in 1..Len(resource) : AllPresent(resource[i]) \/ AllAbsent(resource[i])

\* the last step (address parsing) failed and an empty client was published
C1_Witness ==
    /\ InitDone
    /\ initResult.err = "address"
    /\ ~env.address
    /\ resource = <<EmptyClient>>

\* C2: init_stylus always returns and always publishes a client, the empty
\* one when initialization failed; no failure aborts the host.
C2_NeverAborts ==
    InitDone =>
        /\ initResult.kind # "panic"
        /\ publishes = 1
        /\ initResult.kind = "err" => resource = <<EmptyClient>>

\* C3: once two blocking increment_sword(1) calls have returned Ok, a
\* get_sword_counts that returns Ok reports a colour-1 count that includes
\* both increments.
C3_BlockingIncrementsVisible ==
    (/\ lastResult.op = "get_sword_counts"
     /\ lastResult.kind = "ok"
     /\ lastResult.acked[1] >= 2)
    => lastResult.val[2] >= initial[2] + 2

\* C4: on an uninitialized client get_sword_counts and increment_sword
\* return Err("Contract not initialized"), create no runtime and issue no
\* remote request, for every colour.
C4_UninitializedBlocking ==
    [][(/\ Uninitialized
        /\ calls' = calls + 1
        /\ lastCall' \in {"get_sword_counts", "increment_sword"})
       => (/\ lastResult'.kind = "err"
           /\ lastResult'.err = "Contract not initialized"
           /\ pc' = "running"
           /\ UNCHANGED <<runtimes, requests, mempool, workers, threads, counts>>)]_vars

C4_Witness ==
    /\ pc = "running"
    /\ resource = <<EmptyClient>>
    /\ prevResult.op = "get_sword_counts"
    /\ prevResult.err = "Contract not initialized"
    /\ lastResult.op = "increment_sword"
    /\ lastResult.err = "Contract not initialized"
    /\ runtimes = 0

\* C5: increment_sword_async on an uninitialized client spawns no thread,
\* issues no request and returns without error or panic, for every colour.
C5_UninitializedAsync ==
    [][(/\ Uninitialized
        /\ calls' = calls + 1
        /\ lastCall' = "increment_sword_async")
       => (/\ lastResult'.kind = "unit"
           /\ pc' = "running"
           /\ UNCHANGED <<threads, workers, runtimes, requests, mempool, counts,
                          resource, issued>>)]_vars

C5_Witness ==
    /\ pc = "running"
    /\ resource = <<EmptyClient>>
    /\ lastResult.op = "increment_sword_async"
    /\ lastResult.kind = "unit"
    /\ threads = 0

\* C6 as stated: when the remote call succeeds get_sword_counts returns Ok
\* with each counter reduced modulo 2^64, never an error or a panic.
C6_Truncates ==
    (lastResult.op = "get_sword_counts" /\ lastResult.kind \in {"ok", "panic"})
    => /\ lastResult.kind = "ok"
       /\ \A i \in 1..3 : lastResult.val[i] = lastResult.raw[i] % WordMod

\* C6 as amended: when the remote call succeeds get_sword_counts returns Ok
\* with the three counters unchanged if each fits 64 bits, and panics (the
\* conversion is checked) if one does not; it never returns a reduced value.
C6_CheckedConversion ==
    (lastResult.op = "get_sword_counts" /\ lastResult.kind \in {"ok", "panic"})
    => IF \A i \in 1..3 : lastResult.raw[i] < WordMod
       THEN lastResult.kind = "ok" /\ lastResult.val = lastResult.raw
       ELSE lastResult.kind = "panic" /\ pc = "panicked"

\* a counter beyond 64 bits was read
C6_Witness ==
    /\ lastResult.op = "get_sword_counts"
    /\ lastResult.kind = "panic"
    /\ \E i \in 1..3 : lastResult.raw[i] >= WordMod

\* the separator of the format string
Sep == <<".", ".", ".">>

\* the run got as far as the println! of the key
ReachedKeyLog == InitDone /\ env.runtime /\ env.read /\ env.parse

\* characters of s: every byte but a continuation byte starts one
NumChars(s) == Cardinality({i \in 1..Len(s) : s[i] # "T"})

\* the first n characters of s, and the last n
FirstChars(s, n) ==
    LET i == CHOOSE j \in 0..Len(s) :
                 IsCharBoundary(s, j) /\ NumChars(SubSeq(s, 1, j)) = n
    IN  SubSeq(s, 1, i)

LastChars(s, n) ==
    LET i == CHOOSE j \in 0..Len(s) :
                 IsCharBoundary(s, j) /\ NumChars(SubSeq(s, j + 1, Len(s))) = n
    IN  SubSeq(s, i + 1, Len(s))

\* the line withholds a byte of the credential: it prints fewer bytes of it
\* than the credential has
Withholds(line, k) == Len(line) - Len(Sep) < Len(k)

\* C7 as stated: a credential of more than 10 characters is logged as its
\* first 10 characters, the separator and its last 10 characters, and the
\* line never gives the whole credential; one of 10 or fewer is logged
\* verbatim.
C7_Redacted ==
    ReachedKeyLog =>
        IF NumChars(key) > KEEP
        THEN /\ keyLog = <<FirstChars(key, KEEP) \o Sep \o LastChars(key, KEEP)>>
             /\ Withholds(keyLog[1], key)
        ELSE keyLog = <<key>>

\* C7 as amended, in bytes: a credential of 10 bytes or fewer is logged
\* verbatim; a longer one whose offsets 10 and len-10 are character
\* boundaries is logged as its first 10 bytes, "..." and its last 10 bytes,
\* which withholds a byte exactly when it has more than 20 bytes (one of
\* 11 to 20 bytes is printed whole); otherwise the slice panics and nothing
\* is logged.
C7_RedactedBytes ==
    ReachedKeyLog =>
        LET n == Len(key)
        IN  IF n <= KEEP
            THEN keyLog = <<key>>
            ELSE IF IsCharBoundary(key, KEEP) /\ IsCharBoundary(key, n - KEEP)
            THEN /\ Len(keyLog) = 1
                 /\ Len(keyLog[1]) = KEEP + Len(Sep) + KEEP
                 /\ \A i \in 1..KEEP : keyLog[1][i] = key[i]
                 /\ \A i \in 1..Len(Sep) : keyLog[1][KEEP + i] = Sep[i]
                 /\ \A i \in 1..KEEP :
                        keyLog[1][KEEP + Len(Sep) + i] = key[n - KEEP + i]
                 /\ Withholds(keyLog[1], key) <=> n > KEEP + KEEP
            ELSE keyLog = <<>> /\ initResult.kind = "panic"

\* a credential of 20 bytes, not all alike, whose line holds all of it
C7_Witness ==
    /\ ReachedKeyLog
    /\ Len(key) = KEEP + KEEP
    /\ key[KEEP + KEEP] = "g"
    /\ Len(keyLog) = 1
    /\ SubSeq(keyLog[1], 1, KEEP)
           \o SubSeq(keyLog[1], KEEP + Len(Sep) + 1, Len(keyLog[1])) = key

\* C8: once init_stylus has completed the client has been published exactly
\* once, and no operation, chain or worker step changes the published
\* client afterwards.
C8_ReadOnly ==
    [][(initResult.kind \in {"ok", "err"})
       => (/\ publishes = 1
           /\ publishes' = 1
           /\ Len(resource) = 1
           /\ resource' = resource)]_vars

\* a Ready client after a successful and a failed operation
C8_Witness ==
    /\ resource = <<ReadyClient>>
    /\ calls >= 2
    /\ prevResult.op = "increment_sword"
    /\ prevResult.err = "send"
    /\ lastResult.op = "get_sword_counts"
    /\ lastResult.kind = "ok"

\* every step before the key parse and the chain-id query succeeded, the
\* chain-id query fails and the credential is no valid key
BothFail ==
    /\ InitDone
    /\ env.runtime /\ env.read /\ env.parse /\ env.url
    /\ ~Redact(key).panic
    /\ ChainIdFails(env)
    /\ ~KeyValid(key)

\* C9 as stated: the chain-id query comes before the key is parsed, so with
\* an unreachable endpoint and a malformed credential initialization fails
\* with the network error of the query.
C9_QueryBeforeKey ==
    BothFail => initResult.kind = "err" /\ initResult.err = "network" /\ requests = 1

\* C9 as amended: the credential is parsed as a key before the chain-id
\* query is issued (only the binding of the signer to the chain id comes
\* after it), so the query is issued only for a valid key, and with an
\* unreachable endpoint and a malformed credential initialization fails
\* with the credential error and issues no request.
C9_KeyBeforeQuery ==
    /\ BothFail =>
           initResult.kind = "err" /\ initResult.err = "credential" /\ requests = 0
    /\ (pc # "startup" /\ calls = 0 /\ threads = 0 /\ requests >= 1) => KeyValid(key)

C9_Witness ==
    /\ BothFail
    /\ env_key.set
    /\ initResult.err = "credential"
    /\ resource = <<EmptyClient>>

\* C10: on a Ready client increment_sword_async returns at once: it spawns
\* one detached thread, issues no request itself, and returns unit without
\* panicking; whatever the thread then does, nothing the caller holds
\* changes.
C10_AsyncDetached ==
    [][/\ (/\ Ready
           /\ calls' = calls + 1
           /\ lastCall' = "increment_sword_async")
          => (/\ lastResult'.kind = "unit"
              /\ pc' = "running"
              /\ threads' = threads + 1
              /\ UNCHANGED <<runtimes, requests, mempool, counts, resource>>)
       /\ (\E c \in Colors : workers'[c] < workers[c])
          => UNCHANGED <<pc, resource, calls, lastCall, lastResult, prevResult>>]_vars

\* after one fire-and-forget increment of colour 1, a first read returned the
\* count without it and a second read the count with it
C10_Witness ==
    /\ calls = 3
    /\ issued[1] = 1
    /\ acked[1] = 0
    /\ prevResult.op = "get_sword_counts"
    /\ prevResult.kind = "ok"
    /\ prevResult.val[2] = initial[2]
    /\ lastResult.op = "get_sword_counts"
    /\ lastResult.kind = "ok"
    /\ lastResult.val[2] = initial[2] + 1

====
